---- MODULE Spec2Model ----
(***************************************************************************)
(* Connection context lifecycle of chrome-devtools-mcp: the process-wide   *)
(* context registry (context.ts: setContext / getContext /                 *)
(* setContextInstance) and the switch_browser tool handler (layout.ts);    *)
(* further down, the select_active_page tool handler (layout.ts).          *)
(*                                                                         *)
(* Every invocation of switch_browser or of setContext is one entry of     *)
(* `calls`; its field pc is the await at which the invocation is           *)
(* suspended.  One action is one run-to-next-await segment of the event    *)
(* loop.  browser.js (ensureBrowserConnected, disconnectBrowser) and       *)
(* McpContext.js are not part of the sources at hand; their behaviour is   *)
(* taken from the design document and kept in separate definitions.        *)
(***************************************************************************)
EXTENDS Integers, Sequences, FiniteSets, TLC

\* Number of invocations (switch_browser or setContext) in one run.
MaxCalls == 2

Calls == 1..MaxCalls

\* Number of invocations in a run checked for liveness.
MaxFairCalls == 1

\* Number of invocations in a run that also writes and reads the registry
\* directly.
MaxRegistryCalls == 1

\* Longest page list handed to select_active_page.
MaxPages == 3

\* JavaScript `undefined` for string-valued fields.
Undef == "undefined"

\* The registry content `undefined`, and the McpContext built by call c
\* (a context wraps the connection handle its call obtained).
NoContext == <<>>

Ctx(c) == <<c>>

\* Locators handed to switch_browser.
Locators == {"ws://A", "wss://B", "http://A", "https://B", "ftp://A", "junk"}

\* The webSocketDebuggerUrl a control endpoint answers with.
DebuggerUrl == "ws://X"

\* `timeout` arguments: absent, or a number.
Timeouts == {<<>>, <<0>>, <<50>>}

\* The address convertHttpToBrowserUrl fetches: `${url}/json/version`.
MetadataUrl(u) == u \o "/json/version"

\* new URL(url).protocol; "invalid" when the constructor throws.
Protocol(u) ==
  CASE u = "ws://A" -> "ws:"
    [] u = "wss://B" -> "wss:"
    [] u = "ws://X" -> "ws:"
    [] u = "http://A" -> "http:"
    [] u = "https://B" -> "https:"
    [] u = "ftp://A" -> "ftp:"
    [] OTHER -> "invalid"

\* calls, context, connected: the invocations, the registry (the module
\* variable `context` of context.ts) and the live connections.  tornDown,
\* overlapped and lastWrite record history: the connections a Teardown
\* disconnected, whether two invocations ever overlapped, and the most
\* recent write to the registry.  observed is what the latest getContext()
\* call returned; sel is the select_active_page invocation.
VARIABLES calls, context, connected, tornDown, overlapped, lastWrite,
          observed, sel

vars == <<calls, context, connected, tornDown, overlapped, lastWrite,
          observed, sel>>

\* The most recent write to the registry: none yet, an install with its
\* argument, or a clear.
NoWrite == [op |-> "none", arg |-> NoContext]

Installed(x) == [op |-> "install", arg |-> x]

Cleared == [op |-> "clear", arg |-> NoContext]

NoError == [kind |-> "none", ms |-> 0, what |-> Undef]

\* Variant: the message names the handler's default instead of the
\* configured duration.
TimeoutErrorDefault(ms) == [kind |-> "Timeout", ms |-> 10000, what |-> Undef]

TimeoutError(ms) == [kind |-> "Timeout", ms |-> ms, what |-> Undef]

UnsupportedProtocol(p) == [kind |-> "UnsupportedProtocol", ms |-> 0, what |-> p]

InvalidUrl(u) == [kind |-> "TypeError", ms |-> 0, what |-> u]

ResolutionFailed(u) == [kind |-> "ResolutionFailed", ms |-> 0, what |-> u]

ConnectRejected == [kind |-> "ConnectRejected", ms |-> 0, what |-> Undef]

BrowserUndefined == [kind |-> "BrowserUndefined", ms |-> 0, what |-> Undef]

ContextBuildFailed == [kind |-> "ContextBuildFailed", ms |-> 0, what |-> Undef]

TeardownFailed == [kind |-> "TeardownFailed", ms |-> 0, what |-> Undef]

IdleCall ==
  [pc |-> "idle", kind |-> "none", url |-> Undef, timeout |-> <<>>,
   wsEndpoint |-> Undef, browserURL |-> Undef, timer |-> "none",
   conn |-> "none", got |-> "none", err |-> NoError, at |-> "none",
   steps |-> <<>>, fetches |-> 0, tdFailed |-> FALSE,
   before |-> NoContext, req |-> Undef, data |-> <<>>, started |-> <<>>]

InFlight(r) == r.pc \notin {"idle", "done", "failed"}

Log(r, e) == [r EXCEPT !.steps = Append(@, e)]

\* An invocation that has returned or thrown: its parameters and locals are
\* gone; what stays is its outcome, the connect promise and the timer.
Retire(r) ==
  [r EXCEPT !.url = Undef, !.timeout = <<>>, !.wsEndpoint = Undef,
            !.browserURL = Undef, !.got = "none", !.fetches = 0,
            !.before = NoContext, !.req = Undef, !.data = <<>>]

\* A rejection leaving the invocation: the promise of the call rejects with e.
Fail(r, e, stage) == Retire([r EXCEPT !.pc = "failed", !.err = e, !.at = stage])

\* `if (timeout)`: absent, 0 (and NaN) are falsy, every other number is truthy.
Truthy(t) == t # <<>> /\ t[1] # 0

\* `timeout = 10000` in the handler's destructuring: the default replaces
\* only an absent value.
DefaultTimeout(t) == IF t = <<>> THEN <<10000>> ELSE t

\* Variant: the finally block is missing, the timer is left as it is.
KeepTimer(t) == t

\* finally { if (timeoutId) clearTimeout(timeoutId) }: a pending timer is
\* cancelled, a timer that has fired stays fired.
ClearTimer(t) == IF t = "pending" THEN "cleared" ELSE t

\* Variant: the timer is set up first and the connect is started after it.
BeginSetContextTimerFirst(r, burl, ws, t) ==
  LET r1 == [Log(r, "connectStart") EXCEPT
               !.browserURL = burl, !.wsEndpoint = ws, !.timeout = t]
      r2 == IF Truthy(t)
              THEN [r1 EXCEPT !.timer = "pending",
                              !.started = Append(@, "timer"),
                              !.pc = "racing"]
              ELSE [r1 EXCEPT !.pc = "awaitConnect"]
  IN  [r2 EXCEPT !.conn = "pending", !.started = Append(@, "connect")]

\* setContext up to its first await: the connect is started, then, for a
\* truthy timeout, the timer, and the call suspends on the race (or on the
\* connect promise alone).  started lists what was started, in order.
BeginSetContext(r, burl, ws, t) ==
  LET r1 == [Log(r, "connectStart") EXCEPT
               !.browserURL = burl, !.wsEndpoint = ws, !.timeout = t,
               !.conn = "pending", !.started = Append(@, "connect")]
  IN  IF Truthy(t)
        THEN [r1 EXCEPT !.timer = "pending",
                        !.started = Append(@, "timer"),
                        !.pc = "racing"]
        ELSE [r1 EXCEPT !.pc = "awaitConnect"]

\* `if (!browser) throw`: the only validation of the resolved handle.
Usable(h) == h # "undefined"

\* Variant: the call returns as soon as the connection is there, leaving
\* the build and the install for later.
AfterConnectReturnsEarly(r, h) ==
  IF Usable(h)
    THEN Retire([r EXCEPT !.got = h, !.pc = "done"])
    ELSE Fail([r EXCEPT !.got = h], BrowserUndefined, "establish")

\* setContext resumed with the connect promise resolved to handle h.
AfterConnect(r, h) ==
  IF Usable(h)
    THEN [r EXCEPT !.got = h, !.pc = "building"]
    ELSE Fail([r EXCEPT !.got = h], BrowserUndefined, "establish")

\* Variant: every scheme other than ws and wss is taken for a control
\* endpoint and its metadata is fetched.
AfterTeardownFetchAny(r) ==
  LET p == Protocol(r.url)
      r1 == Log(r, "resolveStart")
  IN  IF p = "invalid" THEN Fail(r1, InvalidUrl(r.url), "resolve")
      ELSE IF p \in {"ws:", "wss:"}
        THEN BeginSetContext(Log(r1, "resolveDone"), Undef, r.url, r.timeout)
      ELSE [Log(r1, "fetch") EXCEPT !.pc = "fetching", !.fetches = @ + 1,
                                      !.req = MetadataUrl(r.url)]

\* Variant: a WebSocket locator is also recorded as the control endpoint.
AfterTeardownWsAsControl(r) ==
  LET p == Protocol(r.url)
      r1 == Log(r, "resolveStart")
  IN  IF p = "invalid" THEN Fail(r1, InvalidUrl(r.url), "resolve")
      ELSE IF p \in {"ws:", "wss:"}
        THEN BeginSetContext(Log(r1, "resolveDone"), r.url, r.url, r.timeout)
      ELSE IF p \in {"http:", "https:"}
        THEN [Log(r1, "fetch") EXCEPT !.pc = "fetching", !.fetches = @ + 1,
                                      !.req = MetadataUrl(r.url)]
      ELSE Fail(r1, UnsupportedProtocol(p), "resolve")

\* The handler after `await disconnectBrowser()` has resolved: classify the
\* locator and either start the metadata fetch, enter setContext, or throw.
AfterTeardown(r) ==
  LET p == Protocol(r.url)
      r1 == Log(r, "resolveStart")
  IN  IF p = "invalid" THEN Fail(r1, InvalidUrl(r.url), "resolve")
      ELSE IF p \in {"ws:", "wss:"}
        THEN BeginSetContext(Log(r1, "resolveDone"), Undef, r.url, r.timeout)
      ELSE IF p \in {"http:", "https:"}
        THEN [Log(r1, "fetch") EXCEPT !.pc = "fetching", !.fetches = @ + 1,
                                      !.req = MetadataUrl(r.url)]
      ELSE Fail(r1, UnsupportedProtocol(p), "resolve")

\* Variant: the locator is validated before the teardown, so a bad locator
\* throws with the previous connection and registry untouched.
SwitchStartValidateFirst(r, u, t) ==
  LET p == Protocol(u)
      r1 == [r EXCEPT !.kind = "switch", !.url = u, !.timeout = DefaultTimeout(t)]
  IN  IF p = "invalid" THEN Fail(r1, InvalidUrl(u), "resolve")
      ELSE IF p \notin {"ws:", "wss:", "http:", "https:"}
        THEN Fail(r1, UnsupportedProtocol(p), "resolve")
      ELSE [Log(r1, "disconnectStart") EXCEPT !.pc = "teardown"]

\* Variant: disconnectBrowser is not called at all.
SwitchStartNoTeardown(r, u, t) ==
  AfterTeardown([r EXCEPT !.kind = "switch", !.url = u,
                          !.timeout = DefaultTimeout(t)])

\* Variant: disconnectBrowser is called but not awaited.
SwitchStartNoAwait(r, u, t) ==
  AfterTeardown([Log(r, "disconnectStart") EXCEPT
                   !.kind = "switch", !.url = u, !.timeout = DefaultTimeout(t)])

\* Variant: the handler refuses to tear down when the registry is empty.
SwitchStartNeedsContext(r, u, t) ==
  IF r.before = NoContext
    THEN Fail([r EXCEPT !.kind = "switch"], TeardownFailed, "teardown")
    ELSE [Log(r, "disconnectStart") EXCEPT
            !.pc = "teardown", !.kind = "switch", !.url = u,
            !.timeout = DefaultTimeout(t)]

\* The handler up to its first await: read the parameters, call
\* disconnectBrowser and suspend on it.
SwitchStart(r, u, t) ==
  [Log(r, "disconnectStart") EXCEPT
     !.pc = "teardown", !.kind = "switch", !.url = u,
     !.timeout = DefaultTimeout(t)]

\* The handler resumed from `await disconnectBrowser()`: a rejection leaves
\* the handler (there is no try/catch around the await), a normal return
\* continues with the locator.
TeardownResume(r, result, failed) ==
  LET r1 == [r EXCEPT !.tdFailed = failed]
  IN  IF result = "threw"
        THEN Fail(r1, TeardownFailed, "teardown")
        ELSE AfterTeardown(Log(r1, "disconnectDone"))

\* Variant: the driver's failure is rethrown to the caller.
DisconnectRethrows(ok) == IF ok THEN "returned" ELSE "threw"

\* disconnectBrowser (browser.js): a failure of the driver's disconnect is
\* logged and ignored, the function returns normally either way.
DisconnectResult(ok) == "returned"

\* The driver's disconnect: on success no connection is live any more; on
\* failure the connections stay as they were.
LiveAfterDisconnect(live, ok) == IF ok THEN {} ELSE live

\* The registry is cleared on disconnect.
RegistryAfterDisconnect(ctx) == NoContext

\* convertHttpToBrowserUrl resumed from `await fetch(...)`: a network error
\* or a non-OK status is rethrown as the resolution failure naming the url.
AfterFetch(r, o) ==
  IF o = "ok"
    THEN [r EXCEPT !.pc = "parsing"]
    ELSE Fail(r, ResolutionFailed(r.url), "resolve")

\* The webSocketDebuggerUrl field of a parsed body: <<>> when the body has
\* no such field.
BodyField(o) == IF o = "url" THEN <<DebuggerUrl>> ELSE <<>>

\* `data.webSocketDebuggerUrl`: undefined when the field is missing.
FieldValue(d) == IF d = <<>> THEN Undef ELSE d[1]

\* Variant: the handler passes the resolved endpoint alone, without
\* recording the locator as the control URL.
AfterJsonNoControl(r, o) ==
  IF o = "badjson"
    THEN Fail(r, ResolutionFailed(r.url), "resolve")
    ELSE BeginSetContext([Log(r, "resolveDone") EXCEPT !.data = BodyField(o)],
                         Undef, FieldValue(BodyField(o)), r.timeout)

\* convertHttpToBrowserUrl resumed from `await response.json()`, then the
\* handler up to the await inside setContext: data.webSocketDebuggerUrl is
\* returned as it is.
AfterJson(r, o) ==
  IF o = "badjson"
    THEN Fail(r, ResolutionFailed(r.url), "resolve")
    ELSE BeginSetContext([Log(r, "resolveDone") EXCEPT !.data = BodyField(o)],
                         r.url, FieldValue(BodyField(o)), r.timeout)

\* setContext called directly with a wsEndpoint.
DirectStart(r, ws, t) ==
  BeginSetContext([r EXCEPT !.kind = "direct"], Undef, ws, t)

\* The connect promise settles with outcome o.  A call still suspended on
\* it is resumed (the finally block clears the timer first); once the race
\* has been lost to the timer nothing is waiting for the promise.
OnConnectSettled(r, o) ==
  LET r1 == [r EXCEPT !.conn = IF o = "rejected" THEN "rejected" ELSE "resolved"]
      r2 == [Log(r1, "connectDone") EXCEPT !.timer = ClearTimer(@)]
  IN  IF r.pc \in {"racing", "awaitConnect"}
        THEN IF o = "rejected"
               THEN Fail(r2, ConnectRejected, "establish")
               ELSE AfterConnect(r2, o)
        ELSE r1

\* Variant: a continuation chained on the connect promise installs the
\* context whenever the promise resolves, even after the race was lost.
RegistryOnLateConnect(ctx, c, r, o) ==
  IF o = "live" /\ r.pc = "failed" THEN Ctx(c) ELSE ctx

\* The registry when a connect promise settles: setContext does not write
\* it at this point, whether or not the call is still waiting.
RegistryOnConnect(ctx, c, r, o) == ctx

\* The driver's connect resolving with a connected handle makes that
\* connection live.
LiveAfterConnect(live, c, o) == IF o = "live" THEN live \cup {c} ELSE live

\* The setTimeout callback: rejects the timeout promise; a call suspended
\* on the race is resumed with the timeout error (finally finds the timer
\* already fired).
OnTimer(r) ==
  LET r1 == [r EXCEPT !.timer = ClearTimer("fired")]
  IN  IF r.pc = "racing"
        THEN Fail(r1, TimeoutError(r.timeout[1]), "establish")
        ELSE r1

\* Variant: a failed build puts back the context the call found at its start.
InstallOrRollback(ctx, c, ok) == IF ok THEN Ctx(c) ELSE calls[c].before

\* Variant: the registry is assigned the outcome of the build, undefined
\* when it failed.
InstallOrClear(ctx, c, ok) == IF ok THEN Ctx(c) ELSE NoContext

\* Variant: a built context is installed only into an empty registry.
InstallIfEmpty(ctx, c, ok) == IF ok /\ ctx = NoContext THEN Ctx(c) ELSE ctx

\* `context = await McpContext.from(...)`: the assignment happens only when
\* the factory's promise resolves.
InstallOnBuild(ctx, c, ok) == IF ok THEN Ctx(c) ELSE ctx

\* setContext resumed from `await McpContext.from(...)`, and for a switch
\* the rest of the handler (the success line).
AfterBuild(r, ok) ==
  IF ok
    THEN Retire([Log(r, "install") EXCEPT !.pc = "done"])
    ELSE Fail(r, ContextBuildFailed, "build")

\* getContext(): the registry content, returned as it is.
getContext == context

\* getContext() has no assignment: the registry after a read.
RegistryOnRead(ctx) == ctx

\* Variant: setContextInstance ignores an undefined argument.
RegistryOnSetIfDefined(ctx, v) == IF v = NoContext THEN ctx ELSE v

\* setContextInstance(newContext): `context = newContext`, also when the
\* argument is undefined (a clear).
RegistryOnSet(ctx, v) == v

(***************************************************************************)
(* select_active_page (layout.ts).  Pages are numbered from 1 here, from 0 *)
(* in the code.  A page is visible, hidden, or detached (its evaluate      *)
(* throws).                                                                *)
(***************************************************************************)
PageKinds == {"visible", "hidden", "detached"}

PageLists == UNION {[1..n -> PageKinds] : n \in 0..MaxPages}

\* The selected page of the context: none, or the page at an index.
Selections(ps) == {<<>>} \cup {<<k>> : k \in 1..Len(ps)}

NoResponse == [line |-> "none", page |-> <<>>]

\* `Successfully selected active page: ${selectedPageUrl}`
Selected(k) == [line |-> "Successfully selected active page", page |-> <<k>>]

NoActivePage ==
  [line |-> "No active (visible) page found to select.", page |-> <<>>]

\* An invocation not yet started, over page list ps with selection s;
\* url is the local selectedPageUrl ('' at the start), initial keeps the
\* selection the invocation found.
NewSelect(ps, s) ==
  [pc |-> "idle", pages |-> ps, i |-> 1, selected |-> s, initial |-> s,
   url |-> <<>>, response |-> NoResponse]

\* The handler after the loop: one of the two response lines.
Finish(s) ==
  [s EXCEPT !.pc = "returned",
            !.response = IF s.url # <<>> THEN Selected(s.url[1])
                                         ELSE NoActivePage]

\* One iteration up to its await: getPageByIdx finds no page past the end
\* of the list and the catch block leaves the loop.
Iterate(s, i) ==
  IF i > Len(s.pages)
    THEN Finish(s)
    ELSE [s EXCEPT !.i = i, !.pc = "evaluating"]

\* page.evaluate(() => document.visibilityState === 'visible')
Evaluate(kind) ==
  CASE kind = "visible" -> "true"
    [] kind = "hidden" -> "false"
    [] OTHER -> "threw"

\* The iteration resumed from `await page.evaluate(...)`: a visible page is
\* selected and ends the loop, a rejection is caught and ends the loop
\* (`break` in the catch block), a hidden page leads to the next index.
AfterEvaluate(s, o) ==
  IF o = "threw" THEN Finish(s)
  ELSE IF o = "true"
    THEN Finish([s EXCEPT !.selected = <<s.i>>, !.url = <<s.i>>])
  ELSE Iterate(s, s.i + 1)

\* The state at process start, select_active_page aside.
InitConnection ==
  /\ calls = [c \in Calls |-> IdleCall]
  /\ context = NoContext
  /\ connected = {}
  /\ tornDown = {}
  /\ overlapped = FALSE
  /\ lastWrite = NoWrite
  /\ observed = NoContext

Init ==
  /\ InitConnection
  /\ sel = NewSelect(<<>>, <<>>)

\* Invocations are numbered in the order in which they begin.
CanBegin(c) ==
  /\ calls[c].pc = "idle"
  /\ \A d \in Calls : d < c => calls[d].pc # "idle"

Begins == overlapped \/ \E d \in Calls : InFlight(calls[d])

SwitchBrowser(c, u, t) ==
  /\ CanBegin(c)
  /\ calls' = [calls EXCEPT ![c] = SwitchStart([@ EXCEPT !.before = context], u, t)]
  /\ overlapped' = Begins
  /\ UNCHANGED <<context, connected, tornDown, lastWrite, observed, sel>>

DisconnectDone(c, ok) ==
  /\ calls[c].pc = "teardown"
  /\ ok \/ connected # {}
  /\ connected' = LiveAfterDisconnect(connected, ok)
  /\ tornDown' = tornDown \cup (connected \ connected')
  /\ context' = RegistryAfterDisconnect(context)
  /\ lastWrite' = Cleared
  /\ calls' = [calls EXCEPT ![c] = TeardownResume(@, DisconnectResult(ok), ~ok)]
  /\ UNCHANGED <<overlapped, observed, sel>>

FetchDone(c, o) ==
  /\ calls[c].pc = "fetching"
  /\ calls' = [calls EXCEPT ![c] = AfterFetch(@, o)]
  /\ UNCHANGED <<context, connected, tornDown, overlapped, lastWrite,
                 observed, sel>>

JsonDone(c, o) ==
  /\ calls[c].pc = "parsing"
  /\ calls' = [calls EXCEPT ![c] = AfterJson(@, o)]
  /\ UNCHANGED <<context, connected, tornDown, overlapped, lastWrite,
                 observed, sel>>

SetContextCall(c, ws, t) ==
  /\ CanBegin(c)
  /\ calls' = [calls EXCEPT ![c] = DirectStart([@ EXCEPT !.before = context], ws, t)]
  /\ overlapped' = Begins
  /\ UNCHANGED <<context, connected, tornDown, lastWrite, observed, sel>>

ConnectSettle(c, o) ==
  /\ calls[c].conn = "pending"
  /\ calls' = [calls EXCEPT ![c] = OnConnectSettled(@, o)]
  /\ connected' = LiveAfterConnect(connected, c, o)
  /\ context' = RegistryOnConnect(context, c, calls[c], o)
  /\ UNCHANGED <<tornDown, overlapped, lastWrite, observed, sel>>

TimerFire(c) ==
  /\ calls[c].timer = "pending"
  /\ calls' = [calls EXCEPT ![c] = OnTimer(@)]
  /\ UNCHANGED <<context, connected, tornDown, overlapped, lastWrite,
                 observed, sel>>

FromDone(c, ok) ==
  /\ calls[c].pc = "building"
  /\ context' = InstallOnBuild(context, c, ok)
  /\ lastWrite' = IF ok THEN Installed(Ctx(c)) ELSE lastWrite
  /\ calls' = [calls EXCEPT ![c] = AfterBuild(@, ok)]
  /\ UNCHANGED <<connected, tornDown, overlapped, observed, sel>>

\* A direct write of the registry: an install, or a clear when v is
\* undefined.
SetContextInstance(v) ==
  /\ context' = RegistryOnSet(context, v)
  /\ lastWrite' = IF v = NoContext THEN Cleared ELSE Installed(v)
  /\ UNCHANGED <<calls, connected, tornDown, overlapped, observed, sel>>

\* A tool call reads the registry.
GetContextCall ==
  /\ observed' = getContext
  /\ context' = RegistryOnRead(context)
  /\ UNCHANGED <<calls, connected, tornDown, overlapped, lastWrite, sel>>

\* select_active_page up to its first await.
SelectActivePage ==
  /\ sel.pc = "idle"
  /\ sel' = Iterate(sel, 1)
  /\ UNCHANGED <<calls, context, connected, tornDown, overlapped, lastWrite,
                 observed>>

EvaluateDone ==
  /\ sel.pc = "evaluating"
  /\ sel' = AfterEvaluate(sel, Evaluate(sel.pages[sel.i]))
  /\ UNCHANGED <<calls, context, connected, tornDown, overlapped, lastWrite,
                 observed>>

FetchOutcomes == {"ok", "neterr", "notok"}

JsonOutcomes == {"url", "nofield", "badjson"}

ConnectOutcomes == {"live", "notConnected", "undefined", "rejected"}

DirectEndpoints == {"ws://A"}

\* One segment of the event loop.  At most n invocations begin, with
\* locators and timeouts drawn from L and T; with `serial` an invocation
\* begins only when none is in flight.
Step(n, L, T, serial) ==
  \/ \E c \in 1..n, u \in L, t \in T :
       SwitchBrowser(c, u, t) /\ (serial => ~overlapped')
  \/ \E c \in Calls, ok \in BOOLEAN : DisconnectDone(c, ok)
  \/ \E c \in Calls, o \in FetchOutcomes : FetchDone(c, o)
  \/ \E c \in Calls, o \in JsonOutcomes : JsonDone(c, o)
  \/ \E c \in 1..n, ws \in DirectEndpoints, t \in T :
       SetContextCall(c, ws, t) /\ (serial => ~overlapped')
  \/ \E c \in Calls, o \in ConnectOutcomes : ConnectSettle(c, o)
  \/ \E c \in Calls : TimerFire(c)
  \/ \E c \in Calls, ok \in BOOLEAN : FromDone(c, ok)

\* Invocations are issued one after the other (overlapping switch_browser
\* calls are unsupported): every locator and timeout.
Next == Step(MaxCalls, Locators, Timeouts, TRUE)

Spec == Init /\ [][Next]_vars

\* The same with timeouts of either sign, and the event loop running every
\* timer callback that is due.
FairTimeouts == {<<>>, <<0>>, <<50>>, <<-5>>}

FairNext == Step(MaxFairCalls, Locators, FairTimeouts, TRUE)

FairSpec ==
  Init /\ [][FairNext]_vars /\ WF_vars(\E c \in Calls : TimerFire(c))

\* Nothing serialises tool calls, so invocations may overlap; one locator of
\* each kind that reaches the connect, with the timeout left out.
OverlapLocators == {"ws://A", "http://A"}

OverlapTimeouts == {<<>>}

OverlapNext == Step(MaxCalls, OverlapLocators, OverlapTimeouts, FALSE)

OverlapSpec == Init /\ [][OverlapNext]_vars

\* The registry written and read directly (setContextInstance, getContext)
\* between the steps of invocations that may overlap.  A context handed to
\* setContextInstance is one built elsewhere, or undefined.
InstanceArgs == {NoContext, Ctx(0)}

RegistryLocators == {"ws://A", "http://A"}

RegistryNext ==
  \/ Step(MaxRegistryCalls, RegistryLocators, OverlapTimeouts, FALSE)
  \/ \E v \in InstanceArgs : SetContextInstance(v)
  \/ GetContextCall

RegistrySpec == Init /\ [][RegistryNext]_vars

\* select_active_page over every page list of up to MaxPages pages and
\* every selection.
SelectInit ==
  /\ InitConnection
  /\ sel \in UNION {{NewSelect(ps, s) : s \in Selections(ps)} : ps \in PageLists}

SelectNext == SelectActivePage \/ EvaluateDone

SelectSpec == SelectInit /\ [][SelectNext]_vars

(***************************************************************************)
(* Properties                                                              *)
(***************************************************************************)

\* Call c is the most recent invocation: none numbered after it has begun.
Last(c) == \A d \in Calls : d > c => calls[d].pc = "idle"

IsPrefix(s, t) == Len(s) <= Len(t) /\ \A i \in 1..Len(s) : s[i] = t[i]

FailedSwitch(c, stages) ==
  /\ calls[c].kind = "switch"
  /\ calls[c].pc = "failed"
  /\ calls[c].at \in stages

\* C1: after a switch_browser invocation has failed at the Resolve step or
\* at the Establish step, and as long as no later invocation has begun,
\* getContext() returns undefined, whatever the registry held before.
C1_FailedSwitchLeavesRegistryEmpty ==
  \A c \in Calls :
    FailedSwitch(c, {"resolve", "establish"}) /\ Last(c) => getContext = NoContext

\* A first invocation installed its context, the second is a switch that
\* timed out at the Establish step, and the registry is empty.
C1_Witness ==
  /\ MaxCalls >= 2
  /\ calls[1].pc = "done"
  /\ FailedSwitch(2, {"establish"})
  /\ calls[2].err.kind = "Timeout"
  /\ getContext = NoContext

\* The registry holds nothing, or the context of a call that completed its
\* build and whose connection no Teardown step has disconnected.
RegistrySound ==
  getContext # NoContext =>
    /\ calls[getContext[1]].pc = "done"
    /\ getContext[1] \notin tornDown

\* C2 as stated: in every reachable state getContext() is undefined or a
\* fully built context whose connection no Teardown step has disconnected.
C2_ReadNeverDangling == RegistrySound

\* C2, amended: the same, in every state reached without two invocations
\* having overlapped.
C2_ReadNeverDanglingSerial == ~overlapped => RegistrySound

\* No overlap so far, a Teardown has disconnected an earlier connection and
\* the registry holds the context of the connection made after it.
C2_Witness ==
  /\ ~overlapped
  /\ tornDown # {}
  /\ getContext # NoContext
  /\ getContext[1] \in connected

\* C3: a handle that setContext hands to the Context Factory is present and
\* reports connected.
C3_OnlyConnectedHandleIsBuilt ==
  \A c \in Calls : calls[c].pc = "building" => calls[c].got = "live"

\* C4: a setContext call racing a positive timeout whose connect does not
\* settle eventually fails; the step that ends the race by the timer fails
\* the call with the timeout error carrying the configured duration, leaves
\* the registry as it was and leaves no timer pending.
C4_TimeoutFailsTheCall ==
  /\ [][\A c \in Calls :
          calls[c].pc = "racing" /\ calls'[c].err.kind = "Timeout" =>
            /\ calls'[c].pc = "failed"
            /\ calls'[c].err.ms = calls[c].timeout[1]
            /\ calls'[c].timer # "pending"
            /\ context' = context]_vars
  /\ \A c \in Calls :
       (calls[c].pc = "racing" /\ calls[c].timeout[1] > 0)
         ~> (calls[c].conn # "pending"
             \/ (calls[c].pc = "failed" /\ calls[c].err.kind = "Timeout"))

\* A call with timeout 50 has failed by the timer while its connect is
\* still pending.
C4_Witness ==
  \E c \in Calls :
    /\ calls[c].pc = "failed"
    /\ calls[c].err = TimeoutError(50)
    /\ calls[c].conn = "pending"
    /\ calls[c].timer = "fired"

\* Call c lost the race to the timer and its connect attempt is abandoned.
Abandoned(c) ==
  /\ calls[c].pc = "failed"
  /\ calls[c].err.kind = "Timeout"
  /\ calls[c].conn = "pending"

\* C5: when the connect attempt of a call that timed out settles later, the
\* registry keeps its content, the call keeps the outcome it reported and no
\* other invocation is affected.
C5_AbandonedConnectIgnored ==
  [][\A c \in Calls :
       Abandoned(c) /\ calls'[c].conn # "pending" =>
         /\ context' = context
         /\ calls'[c].pc = "failed"
         /\ calls'[c].err = calls[c].err
         /\ \A d \in Calls \ {c} : calls'[d] = calls[d]]_vars

\* The connect of a call that timed out has resolved with a live handle
\* after a later switch installed its own context, which the registry
\* still holds.
C5_Witness ==
  \E c, d \in Calls :
    /\ c < d
    /\ calls[c].pc = "failed" /\ calls[c].err.kind = "Timeout"
    /\ calls[c].conn = "resolved" /\ c \in connected
    /\ calls[d].kind = "switch" /\ calls[d].pc = "done"
    /\ getContext = Ctx(d)

\* C6: a timer is pending only while its call is suspended on the race:
\* once setContext has left the race because the connect settled, the timer
\* is cleared and cannot fire.
C6_TimerClearedWhenConnectWins ==
  \A c \in Calls : calls[c].timer = "pending" => calls[c].pc = "racing"

\* One call returned after its connect resolved and another threw after its
\* connect rejected, each with its timer cleared.
C6_Witness ==
  \E c, d \in Calls :
    /\ calls[c].pc = "done" /\ calls[c].timer = "cleared"
    /\ calls[d].pc = "failed" /\ calls[d].err = ConnectRejected
    /\ calls[d].timer = "cleared"

\* C7: a switch_browser invocation whose Teardown failed to disconnect does
\* not end at the Teardown step and does not report the teardown failure:
\* it has gone on to resolve the locator.
C7_TeardownFailureSuppressed ==
  \A c \in Calls :
    calls[c].tdFailed =>
      /\ calls[c].at # "teardown"
      /\ calls[c].err # TeardownFailed
      /\ Len(calls[c].steps) >= 3
      /\ calls[c].steps[3] = "resolveStart"

\* A switch whose disconnect failed has resolved, connected and installed
\* its context.
C7_Witness ==
  \E c \in Calls :
    /\ calls[c].tdFailed
    /\ calls[c].pc = "done"
    /\ getContext = Ctx(c)

\* The steps of a switch_browser invocation, for a WebSocket locator and
\* for an HTTP locator (which fetches the metadata while resolving).
SwitchOrderWs ==
  <<"disconnectStart", "disconnectDone", "resolveStart", "resolveDone",
    "connectStart", "connectDone", "install">>

SwitchOrderHttp ==
  <<"disconnectStart", "disconnectDone", "resolveStart", "fetch",
    "resolveDone", "connectStart", "connectDone", "install">>

\* C8: the steps a switch_browser invocation has taken are an initial part
\* of the fixed order disconnect, resolve, connect, install, each step at
\* most once and each started only after the one before it completed.
C8_StepsInOrder ==
  \A c \in Calls :
    calls[c].kind = "switch" =>
      \/ IsPrefix(calls[c].steps, SwitchOrderWs)
      \/ IsPrefix(calls[c].steps, SwitchOrderHttp)

\* A switch with an HTTP locator has run through all its steps.
C8_Witness ==
  \E c \in Calls : calls[c].pc = "done" /\ calls[c].steps = SwitchOrderHttp

\* Calls d and c are consecutive switch_browser invocations, d has
\* succeeded and c has connected (and perhaps installed).
SwitchAfterSwitch(d, c) ==
  /\ c = d + 1
  /\ calls[d].kind = "switch" /\ calls[d].pc = "done"
  /\ calls[c].kind = "switch" /\ calls[c].pc \in {"building", "done"}

C10_RegistryWrittenOnlyOnSuccess ==
  [][\A c \in Calls :
       /\ calls'[c] # calls[c]
       /\ \/ calls[c].pc \in {"racing", "awaitConnect", "building"}
          \/ calls'[c].kind = "direct"
       => IF calls[c].pc = "building" /\ calls'[c].pc = "done"
            THEN context' = Ctx(c)
            ELSE context' = context]_vars

\* A direct setContext call has failed while building its context and the
\* registry still holds the context installed before it.
C10_Witness ==
  \E c, d \in Calls :
    /\ d < c
    /\ calls[c].kind = "direct" /\ calls[c].pc = "failed"
    /\ calls[c].err = ContextBuildFailed
    /\ getContext = Ctx(d)

\* The schemes switch_browser accepts.
Supported == {"ws:", "wss:", "http:", "https:"}

Mentions(s, e) == \E i \in 1..Len(s) : s[i] = e

\* C11: the step that resumes a switch_browser call from its teardown with
\* a locator whose scheme is none of ws, wss, http, https fails the call
\* with the unsupported-protocol error naming that scheme; the call has
\* made no metadata request and started no connect or timer, and the step
\* changes nothing but what the disconnect changes (connections closed,
\* registry cleared) and the call itself.
C11_UnsupportedSchemeFailsBeforeNetwork ==
  [][\A c \in Calls :
       /\ calls[c].pc = "teardown" /\ calls'[c].pc # "teardown"
       /\ Protocol(calls[c].url) \notin Supported \cup {"invalid"}
       => /\ calls'[c].pc = "failed"
          /\ calls'[c].err = UnsupportedProtocol(Protocol(calls[c].url))
          /\ calls'[c].steps = <<"disconnectStart", "disconnectDone", "resolveStart">>
          /\ calls'[c].conn = "none" /\ calls'[c].timer = "none"
          /\ connected' \subseteq connected
          /\ context' = NoContext
          /\ \A d \in Calls \ {c} : calls'[d] = calls[d]]_vars

\* A switch to an ftp locator has failed naming "ftp:", after the teardown
\* disconnected the connection of the call before it.
C11_Witness ==
  \E c \in Calls :
    /\ FailedSwitch(c, {"resolve"})
    /\ calls[c].err = UnsupportedProtocol("ftp:")
    /\ ~Mentions(calls[c].steps, "fetch")
    /\ ~Mentions(calls[c].steps, "connectStart")
    /\ tornDown # {} /\ connected = {}

\* The call holds a timeout argument that is present and not positive.
NonPositiveTimeout(c) ==
  calls[c].timeout # <<>> /\ calls[c].timeout[1] <= 0

\* C12: a timeout that is present but zero or negative is rejected: no
\* call holding such a timeout has started a connect attempt, and none is
\* waiting for its connect without a deadline.
C12_NonPositiveTimeoutRejected ==
  \A c \in Calls :
    NonPositiveTimeout(c) =>
      /\ calls[c].conn = "none"
      /\ calls[c].pc \notin {"racing", "awaitConnect", "building"}

\* C13: a switch_browser call that has started its connect attempt and has
\* not yet returned holds a defined socket endpoint: every failure to obtain
\* the debugger URL, a body without the field included, ended the call
\* before the connect.
C13_ConnectOnlyWithSocketEndpoint ==
  \A c \in Calls :
    /\ calls[c].kind = "switch"
    /\ calls[c].pc \in {"racing", "awaitConnect", "building"}
    => calls[c].wsEndpoint # Undef

\* Call c is inside setContext: its connect attempt has been started and
\* the call has not returned yet.
InSetContext(c) == calls[c].pc \in {"racing", "awaitConnect", "building"}

\* C14: a switch_browser call with a ws or wss locator makes no metadata
\* request, and the connect attempt it starts is given the locator itself
\* as the socket endpoint and no control URL.
C14_WebSocketLocatorPassedThrough ==
  \A c \in Calls :
    calls[c].kind = "switch" /\ Protocol(calls[c].url) \in {"ws:", "wss:"} =>
      /\ calls[c].fetches = 0
      /\ ~Mentions(calls[c].steps, "fetch")
      /\ InSetContext(c) =>
           calls[c].wsEndpoint = calls[c].url /\ calls[c].browserURL = Undef

\* A switch to wss://B has connected with that string as its endpoint.
C14_Witness ==
  \E c \in Calls :
    /\ calls[c].kind = "switch" /\ calls[c].pc = "building"
    /\ calls[c].url = "wss://B" /\ calls[c].wsEndpoint = "wss://B"
    /\ calls[c].browserURL = Undef /\ calls[c].fetches = 0

\* C15: a switch_browser call with an http or https locator whose control
\* endpoint answered with a body carrying webSocketDebuggerUrl "ws://X" has
\* made exactly one metadata request, to <locator>/json/version, and the
\* connect attempt it started was given "ws://X" as the socket endpoint
\* and the locator as the control URL.
C15_ControlUrlResolvedOnce ==
  \A c \in Calls :
    /\ calls[c].kind = "switch"
    /\ Protocol(calls[c].url) \in {"http:", "https:"}
    /\ calls[c].data = <<"ws://X">>
    => /\ calls[c].fetches = 1
       /\ calls[c].req = calls[c].url \o "/json/version"
       /\ InSetContext(c)
       /\ calls[c].wsEndpoint = "ws://X"
       /\ calls[c].browserURL = calls[c].url

\* A switch to https://B has resolved its endpoint by one request and is
\* connected with it.
C15_Witness ==
  \E c \in Calls :
    /\ calls[c].kind = "switch" /\ calls[c].pc = "building"
    /\ calls[c].url = "https://B" /\ calls[c].data = <<"ws://X">>
    /\ calls[c].req = "https://B/json/version" /\ calls[c].fetches = 1
    /\ calls[c].wsEndpoint = "ws://X" /\ calls[c].browserURL = "https://B"

\* C16: the registry holds at most one context and getContext() returns
\* the argument of the most recent install (by setContextInstance or by a
\* successful setContext), or undefined when the most recent write was a
\* clear or nothing has been written yet; a read in between changes
\* nothing of this.
C16_RegistryHoldsLastWrite ==
  /\ Len(getContext) <= 1
  /\ IF lastWrite.op = "install"
       THEN getContext = lastWrite.arg /\ getContext # NoContext
       ELSE getContext = NoContext

\* A read returned the context installed by a setContext call; after it
\* setContextInstance installed another context, which the registry holds.
C16_Witness ==
  /\ observed = Ctx(1)
  /\ lastWrite = Installed(Ctx(0))
  /\ getContext = Ctx(0)

\* C17: while the registry is empty and no connection is live, a step of
\* a switch_browser call that begins it or resumes it from the teardown
\* does not fail the call at the Teardown step: the call begun is
\* suspended on the disconnect, and the call resumed has gone on to
\* resolve its locator, with the registry still empty, no connection
\* touched and no teardown failure noted.
C17_TeardownWithoutConnectionProceeds ==
  [][\A c \in Calls :
       /\ getContext = NoContext /\ connected = {}
       /\ calls[c].pc \in {"idle", "teardown"}
       /\ calls'[c] # calls[c] /\ calls'[c].kind = "switch"
       => /\ calls'[c].at # "teardown"
          /\ calls'[c].err # TeardownFailed
          /\ calls[c].pc = "idle" => calls'[c].pc = "teardown"
          /\ calls[c].pc = "teardown" =>
               /\ IsPrefix(<<"disconnectStart", "disconnectDone", "resolveStart">>,
                           calls'[c].steps)
               /\ ~calls'[c].tdFailed
               /\ context' = NoContext /\ connected' = {}]_vars

\* The first invocation, a switch begun with nothing to tear down, has run
\* through all its steps and installed its context.
C17_Witness ==
  /\ calls[1].kind = "switch" /\ calls[1].pc = "done"
  /\ calls[1].steps = SwitchOrderWs
  /\ ~calls[1].tdFailed
  /\ tornDown = {} /\ Last(1)
  /\ getContext = Ctx(1)

\* C18: a switch_browser call holds a timeout from its start (the supplied
\* one, or the default) and waits for its connect attempt only while
\* racing it against a pending timer, never on the connect alone.
C18_SwitchConnectsUnderDeadline ==
  \A c \in Calls :
    calls[c].kind = "switch" /\ InFlight(calls[c]) =>
      /\ calls[c].timeout # <<>>
      /\ calls[c].pc # "awaitConnect"
      /\ calls[c].pc = "racing" => calls[c].timer = "pending"

\* The indexes of the visible pages of a list.
Visible(ps) == {k \in 1..Len(ps) : ps[k] = "visible"}

\* C19: when select_active_page has returned, the page selected is the
\* visible page of lowest index, whatever hidden or detached pages come
\* before it; when no page is visible the selection is the one found at
\* the start and the response is the no-active-page line.
C19_LowestVisiblePageSelected ==
  sel.pc = "returned" =>
    IF Visible(sel.pages) # {}
      THEN \E v \in Visible(sel.pages) :
             /\ \A k \in Visible(sel.pages) : v <= k
             /\ sel.selected = <<v>>
      ELSE sel.selected = sel.initial /\ sel.response = NoActivePage

\* switch_browser invocations have overlapped, every invocation begun is a
\* switch_browser and has completed, and at least one of them installed.
OverlappedSwitchesCompleted ==
  /\ overlapped
  /\ \A c \in Calls :
       /\ calls[c].pc \in {"idle", "done", "failed"}
       /\ calls[c].kind \in {"none", "switch"}
  /\ \E c \in Calls : calls[c].pc = "done"

\* The most recent write of the registry was an install and the registry
\* holds the context installed.
HoldsLastInstall ==
  lastWrite.op = "install" /\ getContext = lastWrite.arg

\* C20 as stated: once overlapping switch_browser invocations have all
\* completed, nothing was written to the registry after the install that
\* executed last, and the registry holds that install's context.
C20_LastInstallWins == OverlappedSwitchesCompleted => HoldsLastInstall

\* C20, amended: the same when every invocation succeeded; when one
\* failed, the registry holds the last install's context or, a Teardown
\* having run after that install, nothing.
C20_LastInstallWinsWhenAllSucceed ==
  OverlappedSwitchesCompleted =>
    IF \A c \in Calls : calls[c].pc # "failed"
      THEN HoldsLastInstall
      ELSE HoldsLastInstall \/ (lastWrite.op = "clear" /\ getContext = NoContext)

\* Two overlapping switches have both succeeded and the install of the one
\* begun first executed last: the registry holds its context.
C20_Witness ==
  /\ OverlappedSwitchesCompleted
  /\ calls[1].pc = "done" /\ calls[2].pc = "done"
  /\ lastWrite = Installed(Ctx(1))
  /\ getContext = Ctx(1)

\* C21: a switch_browser call that has reported success has installed its
\* context before, as the last of its steps; in a run without overlap, from
\* the report until the next invocation begins getContext() returns the
\* context built from that call's connection.
C21_SuccessOnlyAfterInstall ==
  \A c \in Calls :
    calls[c].kind = "switch" /\ calls[c].pc = "done" =>
      /\ calls[c].steps # <<>>
      /\ calls[c].steps[Len(calls[c].steps)] = "install"
      /\ calls[c].conn = "resolved"
      /\ ~overlapped /\ Last(c) => getContext = Ctx(c)

\* A switch has just reported success after a direct setContext call had
\* installed its own context: the registry holds the switch's context.
C21_Witness ==
  \E c, d \in Calls :
    /\ d < c /\ Last(c) /\ ~overlapped
    /\ calls[d].kind = "direct" /\ calls[d].pc = "done"
    /\ calls[c].kind = "switch" /\ calls[c].pc = "done"
    /\ lastWrite = Installed(Ctx(c))
    /\ getContext = Ctx(c)

\* C22: a call that has entered setContext has started its connect, with
\* or without a timeout, and the connect is the first thing it started; a
\* timer exists only where it was created after the connect; a call inside
\* setContext with no timeout has created no timer and waits on the
\* connect alone.
C22_ConnectStartedFirst ==
  \A c \in Calls :
    /\ Mentions(calls[c].steps, "connectStart") =>
         /\ calls[c].conn # "none"
         /\ calls[c].started \in {<<"connect">>, <<"connect", "timer">>}
    /\ calls[c].timer # "none" <=> calls[c].started = <<"connect", "timer">>
    /\ InSetContext(c) /\ calls[c].timeout = <<>> =>
         /\ calls[c].timer = "none"
         /\ calls[c].started = <<"connect">>
         /\ calls[c].pc # "racing"

\* A setContext call without a timeout is waiting on its connect with no
\* timer, after a call with a timeout started its connect and then its
\* timer and lost the race.
C22_Witness ==
  \E c, d \in Calls :
    /\ calls[d].pc = "failed" /\ calls[d].err.kind = "Timeout"
    /\ calls[d].started = <<"connect", "timer">>
    /\ calls[c].kind = "direct" /\ calls[c].pc = "awaitConnect"
    /\ calls[c].timeout = <<>> /\ calls[c].timer = "none"
    /\ calls[c].started = <<"connect">> /\ calls[c].conn = "pending"

====
